---- MODULE Spec2Model ----
(***************************************************************************)
(* Model of copado-function/app/common/Util.js: the helper class Util with *)
(* its module-level CONFIG and Log, the two command executors, the         *)
(* environment-variable converters and the business-unit resolver.         *)
(*                                                                         *)
(* JavaScript values are tagged records.  A JavaScript string is a         *)
(* sequence of text fragments (concatenation is \o), a property name is    *)
(* such a sequence, and an object is a function from property names to     *)
(* values.  A string holding JSON text is tagged by the value it encodes.  *)
(***************************************************************************)
EXTENDS Integers, Sequences, FiniteSets

\* ------------------------------------------------------------------ bounds
MaxLen == 3        \* longest flat {name, value} list given to _convertEnvVars
MaxGroups == 2     \* longest {id, environmentVariables} list
MaxKeys == 2       \* most keys of the mapping given to convertEnvVariables
MaxStatus == 2     \* largest exit status a failed child process reports
MaxCmds == 2       \* longest command array

\* ------------------------------------------------------- JavaScript values
NULL == [t |-> "null"]
UNDEFINED == [t |-> "undefined"]
Str(s) == [t |-> "string", s |-> s]
Num(n) == [t |-> "number", n |-> n]
Arr(a) == [t |-> "array", a |-> a]
Obj(o) == [t |-> "object", o |-> o]
JsonText(v) == [t |-> "string", json |-> v]
BadText == [t |-> "string", garbage |-> TRUE]
Err(name, msg) == [t |-> "error", name |-> name, msg |-> msg]
EmptyObject == [k \in {} |-> NULL]

IsJsonText(x) == x.t = "string" /\ "json" \in DOMAIN x
IsPlainStr(x) == x.t = "string" /\ "s" \in DOMAIN x

\* ToBoolean: what `!x` and `x && y` test
Truthy(x) ==
    CASE x.t \in {"null", "undefined"} -> FALSE
      [] IsPlainStr(x) -> x.s # <<>>
      [] x.t = "number" -> x.n # 0
      [] OTHER -> TRUE

\* `null != x`: false exactly for null and undefined
NotNullish(x) == x.t \notin {"null", "undefined"}

\* obj.prop / obj[prop]: undefined when the property is missing
Get(x, key) ==
    IF x.t = "object" /\ key \in DOMAIN x.o THEN x.o[key] ELSE UNDEFINED

\* obj[key] = val on a plain object
Put(o, key, val) == [k \in DOMAIN o \cup {key} |-> IF k = key THEN val ELSE o[k]]

Digit(d) ==
    CASE d = 0 -> "0" [] d = 1 -> "1" [] d = 2 -> "2" [] d = 3 -> "3" [] d = 4 -> "4"
      [] d = 5 -> "5" [] d = 6 -> "6" [] d = 7 -> "7" [] d = 8 -> "8" [] d = 9 -> "9"

RECURSIVE NatToString(_)
NatToString(n) == IF n < 10 THEN <<Digit(n)>> ELSE NatToString(n \div 10) \o <<Digit(n % 10)>>

\* ToString, as used by `+` with a string operand and by property keys
JsToString(x) ==
    CASE IsPlainStr(x) -> x.s
      [] x.t = "number" -> NatToString(x.n)
      [] x.t = "null" -> <<"null">>
      [] x.t = "undefined" -> <<"undefined">>
      [] OTHER -> <<"[object]">>

\* Array.prototype.join
RECURSIVE Join(_, _)
Join(a, sep) ==
    IF a = <<>> THEN <<>>
    ELSE IF Len(a) = 1 THEN JsToString(a[1])
    ELSE JsToString(a[1]) \o sep \o Join(Tail(a), sep)

\* String.prototype.endsWith
EndsWith(s, suffix) ==
    /\ Len(s) >= Len(suffix)
    /\ SubSeq(s, Len(s) - Len(suffix) + 1, Len(s)) = suffix

\* ------------------------------------------------------------ the state
VARIABLES
    CONFIG,       \* module-level `let CONFIG`
    Log,          \* module-level `let Log`
    latest,       \* the configuration passed to the most recent constructor call
    instances,    \* the configurations the Util instances alive were constructed with
    pc,           \* position of the running call; "idle" between calls
    op,           \* the method invoked by the caller
    self,         \* the instance it was invoked on, named by the configuration it was constructed with
    args,         \* its arguments
    call,         \* frame of the running execCommand / execCommandReturnStatus
    ex,           \* the exception caught in that frame
    exitCode,     \* local of execCommandReturnStatus
    config,       \* local of getBuName: the parsed configuration file
    envVariables, \* the mapping handed to convertEnvVariables, mutated in place
    keys,         \* convertEnvVariables: the keys of Object.keys(envVariables) still to visit
    trace,        \* what the running call did so far: log lines, child processes, file-system calls
    result        \* how the last call ended

vars == <<CONFIG, Log, latest, instances, pc, op, self, args, call, ex, exitCode, config,
          envVariables, keys, trace, result>>

\* the central configurations callers construct Util with
Cfg(path, local, version) ==
    [t |-> "config", configFilePath |-> Str(path), installMcdevLocally |-> local,
     mcdevVersion |-> Str(version)]

Configs ==
    { Cfg(<<"a.json">>, FALSE, <<"5", ".", "0">>),
      Cfg(<<"b.json">>, TRUE, <<"#", "d", "e", "v">>),
      Cfg(<<"b.json">>, TRUE, <<"5", ".", "0">>),
      Cfg(<<"a.json">>, TRUE, <<>>) }

\* new _Log(CONFIG): the logger keeps the configuration it was built with
NewLog(cfg) == [t |-> "Log", config |-> cfg]

NoCall == [fn |-> "none"]
NoResult == [kind |-> "none"]
Returned(v) == [kind |-> "return", val |-> v]
Thrown(e) == [kind |-> "throw", val |-> e]

Event(kind, msg) == [ev |-> kind, msg |-> msg]
Emit(kind, msg) == trace' = Append(trace, Event(kind, msg))

\* nothing is running: the state between two calls
Idle ==
    /\ pc = "idle"
    /\ op = "none"
    /\ self = UNDEFINED
    /\ args = <<>>
    /\ call = NoCall
    /\ ex = UNDEFINED
    /\ exitCode = UNDEFINED
    /\ config = UNDEFINED
    /\ envVariables = EmptyObject
    /\ keys = {}
    /\ trace = <<>>
    /\ result = NoResult

\* the module as loaded: `let CONFIG; let Log;`, no Util constructed yet
InitLoaded ==
    /\ CONFIG = UNDEFINED
    /\ Log = UNDEFINED
    /\ latest = UNDEFINED
    /\ instances = {}
    /\ Idle

\* the state after `new Util(cfg)`
Init ==
    \E cfg \in Configs :
        /\ CONFIG = cfg
        /\ Log = NewLog(cfg)
        /\ latest = cfg
        /\ instances = {cfg}
        /\ Idle

\* the caller starts method `name` on instance `i` with arguments `a`
Begin(name, i, a, start) ==
    /\ pc = "idle"
    /\ i \in instances
    /\ op' = name
    /\ self' = i
    /\ args' = a
    /\ pc' = start

\* the method has ended (pc = "done", its outcome in result) and control is back
\* with the caller; the locals of the call are gone
Return ==
    /\ pc = "done"
    /\ pc' = "idle"
    /\ op' = "none"
    /\ self' = UNDEFINED
    /\ args' = <<>>
    /\ call' = NoCall
    /\ ex' = UNDEFINED
    /\ exitCode' = UNDEFINED
    /\ config' = UNDEFINED
    /\ envVariables' = EmptyObject
    /\ keys' = {}
    /\ trace' = <<>>
    /\ result' = NoResult
    /\ UNCHANGED <<CONFIG, Log, latest, instances>>

\* mutant of Construct: `CONFIG = CONFIG || _CONFIG`, the first configuration is kept
Construct_keepFirst(cfg) ==
    /\ pc = "idle"
    /\ CONFIG' = IF CONFIG = UNDEFINED THEN cfg ELSE CONFIG
    /\ Log' = NewLog(CONFIG')
    /\ latest' = cfg
    /\ instances' = instances \cup {cfg}
    /\ UNCHANGED <<pc, op, self, args, call, ex, exitCode, config, envVariables, keys, trace,
                   result>>

\* constructor(_CONFIG)
Construct(cfg) ==
    /\ pc = "idle"
    /\ CONFIG' = cfg
    /\ Log' = NewLog(cfg)
    /\ latest' = cfg
    /\ instances' = instances \cup {cfg}
    /\ UNCHANGED <<pc, op, self, args, call, ex, exitCode, config, envVariables, keys, trace,
                   result>>

\* ------------------------------------------------- the command executors
\* how the child process started by execSync can end
Outcomes ==
    [how : {"exit"}, code : 0..MaxStatus] \cup [how : {"signal", "spawn"}, code : {0}]

\* execSync returns when the shell exits with status 0 and throws otherwise
Succeeds(out) == out.how = "exit" /\ out.code = 0

\* the error execSync throws: status is the exit status, null when the child
\* was killed by a signal or never started
ExecError(out, cmdline) ==
    [t |-> "error", name |-> "Error",
     status |-> IF out.how = "exit" THEN Num(out.code) ELSE NULL,
     message |-> IF out.how = "spawn" THEN <<"spawnSync /bin/sh ENOENT">>
                 ELSE <<"Command failed: ">> \o cmdline]

ZAP == <<"(zap) ">>
CHECKMARK == <<"(check)  ">>
CROSS == <<"(cross)  ">>

PreMsgs == {UNDEFINED, Str(<<>>), Str(<<"pre">>)}
PostMsgs == {NULL, Str(<<"post">>)}
CmdWords == {Str(<<"c1">>), Str(<<"c2">>)}
Commands ==
    {Str(<<"c1">>)} \cup {Arr(a) : a \in UNION {[1..n -> CmdWords] : n \in 1..MaxCmds}}

\* `given` keeps the command as passed: the code reassigns its parameter `command`
Frame(fn, preMsg, command, postMsg, base, cont) ==
    [fn |-> fn, preMsg |-> preMsg, command |-> command, postMsg |-> postMsg,
     given |-> command, base |-> base, cont |-> cont]

\* a method calls this.execCommand(...) and continues at `cont` when it returns
CallExecCommand(preMsg, command, postMsg, base, cont) ==
    /\ call' = Frame("execCommand", preMsg, command, postMsg, base, cont)
    /\ pc' = "ec_pre"

\* what the frame logged and ran, oldest first
FrameTrace == SubSeq(trace, call.base + 1, Len(trace))

\* the caller invokes execCommand(preMsg, command, postMsg)
execCommand_call(preMsgs, commands, postMsgs) ==
    \E i \in instances, preMsg \in preMsgs, command \in commands, postMsg \in postMsgs :
        /\ Begin("execCommand", i, [preMsg |-> preMsg, command |-> command, postMsg |-> postMsg],
                 "ec_pre")
        /\ call' = Frame("execCommand", preMsg, command, postMsg, 0, "top")
        /\ UNCHANGED <<CONFIG, Log, latest, instances, ex, exitCode, config, envVariables, keys,
                       trace,
                       result>>

\* if (null != preMsg) Log.progress(preMsg)
execCommand_pre ==
    /\ pc = "ec_pre"
    /\ IF NotNullish(call.preMsg)
       THEN Emit("progress", JsToString(call.preMsg))
       ELSE UNCHANGED trace
    /\ pc' = "ec_join"
    /\ UNCHANGED <<CONFIG, Log, latest, instances, op, self, args, call, ex, exitCode, config,
                   envVariables, keys, result>>

\* if (command && Array.isArray(command)) command = command.join(' && ')
execCommand_join ==
    /\ pc = "ec_join"
    /\ call' = IF Truthy(call.command) /\ call.command.t = "array"
               THEN [call EXCEPT !.command = Str(Join(call.command.a, <<" && ">>))]
               ELSE call
    /\ pc' = "ec_debug"
    /\ UNCHANGED <<CONFIG, Log, latest, instances, op, self, args, ex, exitCode, config,
                   envVariables, keys, trace, result>>

\* Log.debug('(zap) ' + command)
execCommand_debug ==
    /\ pc = "ec_debug"
    /\ Emit("debug", ZAP \o JsToString(call.command))
    /\ pc' = "ec_exec"
    /\ UNCHANGED <<CONFIG, Log, latest, instances, op, self, args, call, ex, exitCode, config,
                   envVariables, keys, result>>

\* try { execSync(command, ...) } catch (ex) {
execCommand_exec ==
    /\ pc = "ec_exec"
    /\ \E out \in Outcomes :
        /\ trace' = Append(trace, [ev |-> "execSync", msg |-> JsToString(call.command),
                                   out |-> out])
        /\ IF Succeeds(out)
           THEN pc' = "ec_post" /\ UNCHANGED ex
           ELSE pc' = "ec_catch" /\ ex' = ExecError(out, JsToString(call.command))
    /\ UNCHANGED <<CONFIG, Log, latest, instances, op, self, args, call, exitCode, config,
                   envVariables, keys, result>>

\* mutant of execCommand_catch: the failure is logged with Log.error
execCommand_catch_logError ==
    /\ pc = "ec_catch"
    /\ Emit("error", JsToString(ex.status) \o <<": ">> \o ex.message)
    /\ result' = Thrown(Err("Error", <<"Error: ">> \o ex.message))
    /\ pc' = "ec_end"
    /\ UNCHANGED <<CONFIG, Log, latest, instances, op, self, args, call, ex, exitCode, config,
                   envVariables, keys>>

\* Log.info(ex.status + ': ' + ex.message); throw new Error(ex)
execCommand_catch ==
    /\ pc = "ec_catch"
    /\ Emit("info", JsToString(ex.status) \o <<": ">> \o ex.message)
    /\ result' = Thrown(Err("Error", <<"Error: ">> \o ex.message))
    /\ pc' = "ec_end"
    /\ UNCHANGED <<CONFIG, Log, latest, instances, op, self, args, call, ex, exitCode, config,
                   envVariables, keys>>

\* if (null != postMsg) Log.debug('(check)  ' + postMsg); the method ends
execCommand_post ==
    /\ pc = "ec_post"
    /\ IF NotNullish(call.postMsg)
       THEN Emit("debug", CHECKMARK \o JsToString(call.postMsg))
       ELSE UNCHANGED trace
    /\ result' = Returned(UNDEFINED)
    /\ pc' = "ec_end"
    /\ UNCHANGED <<CONFIG, Log, latest, instances, op, self, args, call, ex, exitCode, config,
                   envVariables, keys>>

\* control leaves execCommand: back to the method that called it, or, with an
\* error no method catches, out of the method the caller invoked
execCommand_leave ==
    /\ pc = "ec_end"
    /\ IF call.cont = "top" \/ result.kind = "throw"
       THEN pc' = "done" /\ UNCHANGED result
       ELSE pc' = call.cont /\ result' = NoResult
    /\ call' = NoCall
    /\ ex' = UNDEFINED
    /\ UNCHANGED <<CONFIG, Log, latest, instances, op, self, args, exitCode, config,
                   envVariables, keys, trace>>

\* the caller invokes execCommandReturnStatus(preMsg, command, postMsg)
execCommandReturnStatus_call(preMsgs, commands, postMsgs) ==
    \E i \in instances, preMsg \in preMsgs, command \in commands, postMsg \in postMsgs :
        /\ Begin("execCommandReturnStatus", i,
                 [preMsg |-> preMsg, command |-> command, postMsg |-> postMsg], "rs_pre")
        /\ call' = Frame("execCommandReturnStatus", preMsg, command, postMsg, 0, "top")
        /\ UNCHANGED <<CONFIG, Log, latest, instances, ex, exitCode, config, envVariables, keys,
                       trace,
                       result>>

\* if (null != preMsg) Log.progress(preMsg)
execCommandReturnStatus_pre ==
    /\ pc = "rs_pre"
    /\ IF NotNullish(call.preMsg)
       THEN Emit("progress", JsToString(call.preMsg))
       ELSE UNCHANGED trace
    /\ pc' = "rs_join"
    /\ UNCHANGED <<CONFIG, Log, latest, instances, op, self, args, call, ex, exitCode, config,
                   envVariables, keys, result>>

\* if (command && Array.isArray(command)) command = command.join(' && ')
execCommandReturnStatus_join ==
    /\ pc = "rs_join"
    /\ call' = IF Truthy(call.command) /\ call.command.t = "array"
               THEN [call EXCEPT !.command = Str(Join(call.command.a, <<" && ">>))]
               ELSE call
    /\ pc' = "rs_debug"
    /\ UNCHANGED <<CONFIG, Log, latest, instances, op, self, args, ex, exitCode, config,
                   envVariables, keys, trace, result>>

\* Log.debug('(zap) ' + command); let exitCode = null
execCommandReturnStatus_debug ==
    /\ pc = "rs_debug"
    /\ Emit("debug", ZAP \o JsToString(call.command))
    /\ exitCode' = NULL
    /\ pc' = "rs_exec"
    /\ UNCHANGED <<CONFIG, Log, latest, instances, op, self, args, call, ex, config,
                   envVariables, keys, result>>

\* try { execSync(command, ...); exitCode = 0 } catch (ex) {
execCommandReturnStatus_exec ==
    /\ pc = "rs_exec"
    /\ \E out \in Outcomes :
        /\ trace' = Append(trace, [ev |-> "execSync", msg |-> JsToString(call.command),
                                   out |-> out])
        /\ IF Succeeds(out)
           THEN pc' = "rs_post" /\ exitCode' = Num(0) /\ UNCHANGED ex
           ELSE pc' = "rs_catch" /\ ex' = ExecError(out, JsToString(call.command))
                /\ UNCHANGED exitCode
    /\ UNCHANGED <<CONFIG, Log, latest, instances, op, self, args, call, config,
                   envVariables, keys, result>>

\* mutant of execCommandReturnStatus_catch: `exitCode = ex.status` is left out
execCommandReturnStatus_catch_noStatus ==
    /\ pc = "rs_catch"
    /\ Emit("warn", CROSS \o JsToString(ex.status) \o <<": ">> \o ex.message)
    /\ result' = Returned(exitCode)
    /\ pc' = "done"
    /\ UNCHANGED <<CONFIG, Log, latest, instances, op, self, args, call, ex, exitCode, config,
                   envVariables, keys>>

\* Log.warn('(cross)  ' + ex.status + ': ' + ex.message); exitCode = ex.status; return exitCode
execCommandReturnStatus_catch ==
    /\ pc = "rs_catch"
    /\ Emit("warn", CROSS \o JsToString(ex.status) \o <<": ">> \o ex.message)
    /\ exitCode' = ex.status
    /\ result' = Returned(exitCode')
    /\ pc' = "done"
    /\ UNCHANGED <<CONFIG, Log, latest, instances, op, self, args, call, ex, config,
                   envVariables, keys>>

\* mutant of execCommandReturnStatus_post: the post-message goes to Log.debug
execCommandReturnStatus_post_debug ==
    /\ pc = "rs_post"
    /\ IF NotNullish(call.postMsg)
       THEN Emit("debug", CHECKMARK \o JsToString(call.postMsg))
       ELSE UNCHANGED trace
    /\ result' = Returned(exitCode)
    /\ pc' = "done"
    /\ UNCHANGED <<CONFIG, Log, latest, instances, op, self, args, call, ex, exitCode, config,
                   envVariables, keys>>

\* if (null != postMsg) Log.progress('(check)  ' + postMsg); return exitCode
execCommandReturnStatus_post ==
    /\ pc = "rs_post"
    /\ IF NotNullish(call.postMsg)
       THEN Emit("progress", CHECKMARK \o JsToString(call.postMsg))
       ELSE UNCHANGED trace
    /\ result' = Returned(exitCode)
    /\ pc' = "done"
    /\ UNCHANGED <<CONFIG, Log, latest, instances, op, self, args, call, ex, exitCode, config,
                   envVariables, keys>>

\* ------------------------------------------- the methods built on execCommand
Branches == {<<"main">>, <<"release">>}

\* push(destinationBranch): this.execCommand(...)
push_call(branches) ==
    \E i \in instances, destinationBranch \in branches :
        /\ Begin("push", i, [destinationBranch |-> Str(destinationBranch)], "ec_pre")
        /\ call' = Frame("execCommand",
                         Str(<<"Pushing updates to ">> \o destinationBranch \o <<" branch">>),
                         Arr(<<Str(<<"git push origin \"">> \o destinationBranch \o <<"\"">>)>>),
                         Str(<<"Completed pushing branch">>), 0, "push_ret")
        /\ UNCHANGED <<CONFIG, Log, latest, instances, ex, exitCode, config, envVariables, keys,
                       trace,
                       result>>

\* execCommand returned: push ends
push_ret ==
    /\ pc = "push_ret"
    /\ result' = Returned(UNDEFINED)
    /\ pc' = "done"
    /\ UNCHANGED <<CONFIG, Log, latest, instances, op, self, args, call, ex, exitCode, config,
                   envVariables, keys, trace>>

\* the caller invokes provideMCDevTools()
provideMCDevTools_call ==
    \E i \in instances :
        /\ Begin("provideMCDevTools", i, <<>>, "pm_exists")
        /\ UNCHANGED <<CONFIG, Log, latest, instances, call, ex, exitCode, config, envVariables,
                       keys,
                       trace, result>>

\* if (fs.existsSync('package.json')) Log.debug(...) else this.execCommand('Initializing npm', ...)
provideMCDevTools_exists ==
    /\ pc = "pm_exists"
    /\ \E found \in BOOLEAN :
        IF found
        THEN /\ trace' = trace \o
                    << [ev |-> "existsSync", msg |-> <<"package.json">>, found |-> TRUE],
                       Event("debug", <<"package.json found, assuming npm was already initialized">>) >>
             /\ pc' = "pm_config"
             /\ UNCHANGED call
        ELSE /\ trace' = Append(trace, [ev |-> "existsSync", msg |-> <<"package.json">>,
                                        found |-> FALSE])
             /\ CallExecCommand(Str(<<"Initializing npm">>), Arr(<<Str(<<"npm init -y">>)>>),
                                Str(<<"Completed initializing NPM">>), Len(trace) + 1, "pm_config")
    /\ UNCHANGED <<CONFIG, Log, latest, instances, op, self, args, ex, exitCode, config,
                   envVariables, keys, result>>

\* the installer chosen from CONFIG.installMcdevLocally and CONFIG.mcdevVersion,
\* then this.execCommand(...)
provideMCDevTools_config ==
    /\ pc = "pm_config"
    /\ IF ~CONFIG.installMcdevLocally
       THEN /\ CallExecCommand(
                   Str(<<"Initializing Accenture SFMC DevTools (packaged version)">>),
                   Arr(<<Str(<<"npm link mcdev --no-audit --no-fund --ignore-scripts --omit=dev --omit=peer --omit=optional">>),
                         Str(<<"mcdev --version">>)>>),
                   Str(<<"Completed installing Accenture SFMC DevTools">>), Len(trace), "pm_ret")
            /\ UNCHANGED <<trace, result>>
       ELSE IF CONFIG.mcdevVersion.s # <<>> /\ CONFIG.mcdevVersion.s[1] = "#"
       THEN LET installer == <<"accenture/sfmc-devtools">> \o CONFIG.mcdevVersion.s
            IN  /\ CallExecCommand(
                       Str(<<"Initializing Accenture SFMC DevTools (">> \o installer \o <<")">>),
                       Arr(<<Str(<<"npm install ">> \o installer),
                             Str(<<"node ./node_modules/mcdev/lib/cli.js --version">>)>>),
                       Str(<<"Completed installing Accenture SFMC DevTools">>), Len(trace), "pm_ret")
                /\ UNCHANGED <<trace, result>>
       ELSE IF ~Truthy(CONFIG.mcdevVersion)
       THEN /\ Emit("error", <<"Please specify mcdev_version in pipeline & environment settings">>)
            /\ result' = Thrown(Err("Error",
                   <<"Please specify mcdev_version in pipeline & environment settings">>))
            /\ pc' = "done"
            /\ UNCHANGED call
       ELSE LET installer == <<"mcdev@">> \o CONFIG.mcdevVersion.s
            IN  /\ CallExecCommand(
                       Str(<<"Initializing Accenture SFMC DevTools (">> \o installer \o <<")">>),
                       Arr(<<Str(<<"npm install ">> \o installer),
                             Str(<<"node ./node_modules/mcdev/lib/cli.js --version">>)>>),
                       Str(<<"Completed installing Accenture SFMC DevTools">>), Len(trace), "pm_ret")
                /\ UNCHANGED <<trace, result>>
    /\ UNCHANGED <<CONFIG, Log, latest, instances, op, self, args, ex, exitCode, config,
                   envVariables, keys>>

\* the last execCommand returned: provideMCDevTools ends
provideMCDevTools_ret ==
    /\ pc = "pm_ret"
    /\ result' = Returned(UNDEFINED)
    /\ pc' = "done"
    /\ UNCHANGED <<CONFIG, Log, latest, instances, op, self, args, call, ex, exitCode, config,
                   envVariables, keys, trace>>

\* ------------------------------------------------------------- getBuName
DigitChars == {"0", "1", "2", "3", "4", "5", "6", "7", "8", "9"}
DigitValue(c) == CHOOSE d \in 0..9 : Digit(d) = c
NaN == -1

\* ToNumber of a string of characters: its decimal value, NaN when it holds
\* anything but digits
RECURSIVE StringToNumber(_)
StringToNumber(s) ==
    IF s = <<>> THEN 0
    ELSE IF \E i \in 1..Len(s) : s[i] \notin DigitChars THEN NaN
    ELSE 10 * StringToNumber(SubSeq(s, 1, Len(s) - 1)) + DigitValue(s[Len(s)])

\* x == y on numbers, strings, null and undefined
LooseEq(x, y) ==
    CASE x.t = "number" /\ y.t = "number" -> x.n = y.n
      [] IsPlainStr(x) /\ IsPlainStr(y) -> x.s = y.s
      [] x.t = "number" /\ IsPlainStr(y) ->
             StringToNumber(y.s) # NaN /\ x.n = StringToNumber(y.s)
      [] IsPlainStr(x) /\ y.t = "number" ->
             StringToNumber(x.s) # NaN /\ StringToNumber(x.s) = y.n
      [] x.t \in {"null", "undefined"} -> y.t \in {"null", "undefined"}
      [] OTHER -> FALSE

\* JSON.parse(text): the value, or the SyntaxError it throws
JsonParse(text) ==
    IF IsJsonText(text)
    THEN Returned(text.json)
    ELSE Thrown(Err("SyntaxError", <<"Unexpected token in JSON">>))

Obj1(key, val) == Obj(Put(EmptyObject, key, val))

\* the arguments callers pass
CredNames == {UNDEFINED, Str(<<>>), Str(<<"C1">>), Str(<<"C3">>)}
Mids == {UNDEFINED, Str(<<>>), Num(100), Str(<<"1", "0", "0">>), Str(<<"9", "9", "9">>)}

\* what the configuration file can hold
BuNames == {<<"bu1">>, <<"bu2">>}
StoredMids == {Num(100), Str(<<"1", "0", "0">>), Num(200)}
BusinessUnits == UNION {[names -> StoredMids] : names \in SUBSET BuNames}
CredentialEntries ==
    {Obj(EmptyObject), Obj1(<<"businessUnits">>, NULL)}
        \cup {Obj1(<<"businessUnits">>, Obj(bus)) : bus \in BusinessUnits}
OtherEntry == Obj1(<<"businessUnits">>, Obj(Put(EmptyObject, <<"bu9">>, Num(100))))
Credentials ==
    LET c2 == {EmptyObject, Put(EmptyObject, <<"C2">>, OtherEntry)}
    IN  c2 \cup {Put(o, <<"C1">>, e) : o \in c2, e \in CredentialEntries}
FileTexts ==
    {BadText, JsonText(Obj(EmptyObject))}
        \cup {JsonText(Obj1(<<"credentials">>, Obj(c))) : c \in Credentials}

\* the caller invokes getBuName(credName, mid)
getBuName_call(credNames, mids) ==
    \E i \in instances, credName \in credNames, mid \in mids :
        /\ Begin("getBuName", i, [credName |-> credName, mid |-> mid], "gb_credName")
        /\ UNCHANGED <<CONFIG, Log, latest, instances, call, ex, exitCode, config, envVariables,
                       keys,
                       trace, result>>

\* mutant of getBuName_credName: the check of credName is missing
getBuName_credName_unchecked ==
    /\ pc = "gb_credName"
    /\ pc' = "gb_mid"
    /\ UNCHANGED <<CONFIG, Log, latest, instances, op, self, args, call, ex, exitCode, config,
                   envVariables, keys, trace, result>>

\* if (!credName) throw new Error('System Property "credentialName" not set')
getBuName_credName ==
    /\ pc = "gb_credName"
    /\ IF ~Truthy(args.credName)
       THEN /\ result' = Thrown(Err("Error", <<"System Property \"credentialName\" not set">>))
            /\ pc' = "done"
       ELSE pc' = "gb_mid" /\ UNCHANGED result
    /\ UNCHANGED <<CONFIG, Log, latest, instances, op, self, args, call, ex, exitCode, config,
                   envVariables, keys, trace>>

\* if (!mid) throw new Error('System Property "mid" not set')
getBuName_mid ==
    /\ pc = "gb_mid"
    /\ IF ~Truthy(args.mid)
       THEN /\ result' = Thrown(Err("Error", <<"System Property \"mid\" not set">>))
            /\ pc' = "done"
       ELSE pc' = "gb_exists" /\ UNCHANGED result
    /\ UNCHANGED <<CONFIG, Log, latest, instances, op, self, args, call, ex, exitCode, config,
                   envVariables, keys, trace>>

\* if (!fs.existsSync(CONFIG.configFilePath)) throw new Error('Could not find config file ' + ...)
getBuName_exists ==
    /\ pc = "gb_exists"
    /\ \E found \in BOOLEAN :
        /\ trace' = Append(trace, [ev |-> "existsSync", msg |-> CONFIG.configFilePath.s,
                                   found |-> found])
        /\ IF ~found
           THEN /\ result' = Thrown(Err("Error", <<"Could not find config file ">>
                                                     \o JsToString(CONFIG.configFilePath)))
                /\ pc' = "done"
           ELSE pc' = "gb_read" /\ UNCHANGED result
    /\ UNCHANGED <<CONFIG, Log, latest, instances, op, self, args, call, ex, exitCode, config,
                   envVariables, keys>>

\* const config = JSON.parse(fs.readFileSync(CONFIG.configFilePath, 'utf8'))
\* (the file may be gone by now: readFileSync then throws)
getBuName_read ==
    /\ pc = "gb_read"
    /\ \/ \E text \in FileTexts :
            /\ trace' = Append(trace, [ev |-> "readFileSync", msg |-> CONFIG.configFilePath.s,
                                       text |-> text])
            /\ IF JsonParse(text).kind = "throw"
               THEN result' = JsonParse(text) /\ pc' = "done" /\ UNCHANGED config
               ELSE config' = JsonParse(text).val /\ pc' = "gb_lookup" /\ UNCHANGED result
       \/ /\ trace' = Append(trace, [ev |-> "readFileSync", msg |-> CONFIG.configFilePath.s,
                                     text |-> UNDEFINED])
          /\ result' = Thrown(Err("Error", <<"ENOENT: no such file or directory">>))
          /\ pc' = "done"
          /\ UNCHANGED config
    /\ UNCHANGED <<CONFIG, Log, latest, instances, op, self, args, call, ex, exitCode,
                   envVariables, keys>>

\* mutant of MyBuNameArr: the comparison is `===`
MyBuNameArr_strict(businessUnits, mid) ==
    {buName \in DOMAIN businessUnits.o : businessUnits.o[buName] = mid}

\* Object.keys(businessUnits).filter((buName) => businessUnits[buName] == mid)
MyBuNameArr(businessUnits, mid) ==
    {buName \in DOMAIN businessUnits.o : LooseEq(businessUnits.o[buName], mid)}

\* mutant of HasBusinessUnits: an empty businessUnits mapping counts as none
HasBusinessUnits_nonEmpty(entry) ==
    /\ Truthy(entry)
    /\ Truthy(Get(entry, <<"businessUnits">>))
    /\ DOMAIN Get(entry, <<"businessUnits">>).o # {}

\* config.credentials[credName] && config.credentials[credName].businessUnits
HasBusinessUnits(entry) == Truthy(entry) /\ Truthy(Get(entry, <<"businessUnits">>))

\* the lookup in the parsed file: lines 258-269
getBuName_lookup ==
    /\ pc = "gb_lookup"
    /\ LET credentials == Get(config, <<"credentials">>)
           entry == Get(credentials, JsToString(args.credName))
           businessUnits == Get(entry, <<"businessUnits">>)
           myBuNameArr == MyBuNameArr(businessUnits, args.mid)
           credBuName == JsToString(args.credName) \o <<"/">> \o (CHOOSE b \in myBuNameArr : TRUE)
       IN  IF ~NotNullish(credentials)
           THEN /\ result' = Thrown(Err("TypeError",
                                        <<"Cannot read properties of undefined">>))
                /\ UNCHANGED trace
           ELSE IF HasBusinessUnits(entry)
           THEN IF Cardinality(myBuNameArr) = 1
                THEN /\ Emit("debug", <<"BU Name is: ">> \o credBuName)
                     /\ result' = Returned(Str(credBuName))
                ELSE /\ result' = Thrown(Err("Error",
                            <<"MID ">> \o JsToString(args.mid) \o <<" not found for ">>
                                \o JsToString(args.credName)))
                     /\ UNCHANGED trace
           ELSE /\ result' = Returned(UNDEFINED)
                /\ UNCHANGED trace
    /\ pc' = "done"
    /\ UNCHANGED <<CONFIG, Log, latest, instances, op, self, args, call, ex, exitCode, config,
                   envVariables, keys>>

\* ------------------------------------------------------- the converters
NotIterable == Thrown(Err("TypeError", <<"is not iterable">>))
NoProperties == Thrown(Err("TypeError", <<"Cannot read properties of undefined">>))

\* mutant of EnvVarsLoop: a name already seen keeps its first value
RECURSIVE EnvVarsLoop_firstWins(_, _, _)
EnvVarsLoop_firstWins(arr, i, response) ==
    IF i > Len(arr) THEN Returned(Obj(response))
    ELSE IF ~NotNullish(arr[i]) THEN NoProperties
    ELSE EnvVarsLoop_firstWins(arr, i + 1,
             IF JsToString(Get(arr[i], <<"name">>)) \in DOMAIN response THEN response
             ELSE Put(response, JsToString(Get(arr[i], <<"name">>)),
                      Get(arr[i], <<"value">>)))

\* for (const item of envVarArr) response[item.name] = item.value, from item i on
RECURSIVE EnvVarsLoop(_, _, _)
EnvVarsLoop(arr, i, response) ==
    IF i > Len(arr) THEN Returned(Obj(response))
    ELSE IF ~NotNullish(arr[i]) THEN NoProperties
    ELSE EnvVarsLoop(arr, i + 1,
                     Put(response, JsToString(Get(arr[i], <<"name">>)), Get(arr[i], <<"value">>)))

\* mutant of _convertEnvVars: a mapping, already converted, is returned as it is
_convertEnvVars_passMapping(envVarArr) ==
    IF ~Truthy(envVarArr) \/ envVarArr.t = "object" THEN Returned(envVarArr)
    ELSE LET parsed == IF envVarArr.t = "string" THEN JsonParse(envVarArr)
                       ELSE Returned(envVarArr)
         IN  IF parsed.kind = "throw" THEN parsed
             ELSE IF parsed.val.t # "array" THEN NotIterable
             ELSE EnvVarsLoop(parsed.val.a, 1, EmptyObject)

\* _convertEnvVars(envVarArr): how the call ends
_convertEnvVars(envVarArr) ==
    IF ~Truthy(envVarArr) THEN Returned(envVarArr)
    ELSE LET parsed == IF envVarArr.t = "string" THEN JsonParse(envVarArr)
                       ELSE Returned(envVarArr)
         IN  IF parsed.kind = "throw" THEN parsed
             ELSE IF parsed.val.t # "array" THEN NotIterable
             ELSE EnvVarsLoop(parsed.val.a, 1, EmptyObject)

\* for (const item of envChildVarArr)
\*     response[item.id] = this._convertEnvVars(item.environmentVariables), from item i on
RECURSIVE EnvChildVarsLoop(_, _, _)
EnvChildVarsLoop(arr, i, response) ==
    IF i > Len(arr) THEN Returned(Obj(response))
    ELSE IF ~NotNullish(arr[i]) THEN NoProperties
    ELSE LET inner == _convertEnvVars(Get(arr[i], <<"environmentVariables">>))
         IN  IF inner.kind = "throw" THEN inner
             ELSE EnvChildVarsLoop(arr, i + 1,
                                   Put(response, JsToString(Get(arr[i], <<"id">>)), inner.val))

\* _convertEnvChildVars(envChildVarArr): how the call ends
_convertEnvChildVars(envChildVarArr) ==
    IF ~Truthy(envChildVarArr) THEN Returned(envChildVarArr)
    ELSE LET parsed == IF envChildVarArr.t = "string" THEN JsonParse(envChildVarArr)
                       ELSE Returned(envChildVarArr)
         IN  IF parsed.kind = "throw" THEN parsed
             ELSE IF parsed.val.t # "array" THEN NotIterable
             ELSE EnvChildVarsLoop(parsed.val.a, 1, EmptyObject)

\* the payloads callers pass
Names == {<<"X">>, <<"Y">>}
Values == {<<"1">>, <<"2">>}
EnvVar(name, value) ==
    Obj(Put(Put(EmptyObject, <<"name">>, Str(name)), <<"value">>, Str(value)))
EnvVars == {EnvVar(n, v) : n \in Names, v \in Values}
SeqsUpTo(S, n) == UNION {[1..k -> S] : k \in 0..n}
EnvVarInputs ==
    {NULL, UNDEFINED} \cup {Arr(l) : l \in SeqsUpTo(EnvVars, MaxLen)}
        \cup {JsonText(Arr(l)) : l \in SeqsUpTo(EnvVars, MaxLen)}

Ids == {<<"A">>, <<"B">>}
ChildEnvVars ==
    {NULL, Arr(<<EnvVar(<<"X">>, <<"1">>), EnvVar(<<"X">>, <<"2">>)>>),
     Arr(<<EnvVar(<<"X">>, <<"1">>), EnvVar(<<"Y">>, <<"2">>)>>),
     JsonText(Arr(<<EnvVar(<<"Y">>, <<"1">>)>>))}
EnvChildVar(id, environmentVariables) ==
    Obj(Put(Put(EmptyObject, <<"id">>, Str(id)), <<"environmentVariables">>,
            environmentVariables))
EnvChildVars == {EnvChildVar(i, e) : i \in Ids, e \in ChildEnvVars}
EnvChildVarInputs ==
    {NULL, UNDEFINED} \cup {Arr(l) : l \in SeqsUpTo(EnvChildVars, MaxGroups)}
        \cup {JsonText(Arr(l)) : l \in SeqsUpTo(EnvChildVars, MaxGroups)}

\* a pure method called and ended in one step: its outcome is in result
Pure(name, i, a, outcome) ==
    /\ Begin(name, i, a, "done")
    /\ result' = outcome
    /\ UNCHANGED <<CONFIG, Log, latest, instances, call, ex, exitCode, config, envVariables,
                   keys, trace>>

\* the caller invokes _convertEnvVars(envVarArr)
convertEnvVars_call(inputs) ==
    \E i \in instances, envVarArr \in inputs :
        Pure("_convertEnvVars", i, [envVarArr |-> envVarArr, once |-> NoResult],
             _convertEnvVars(envVarArr))

\* the caller passes what _convertEnvVars returned to _convertEnvVars again
convertEnvVars_again ==
    /\ pc = "done"
    /\ op = "_convertEnvVars"
    /\ args.once = NoResult
    /\ result.kind = "return"
    /\ args' = [args EXCEPT !.once = result]
    /\ result' = _convertEnvVars(result.val)
    /\ UNCHANGED <<CONFIG, Log, latest, instances, pc, op, self, call, ex, exitCode, config,
                   envVariables, keys, trace>>

\* the caller invokes _convertEnvChildVars(envChildVarArr)
convertEnvChildVars_call(inputs) ==
    \E i \in instances, envChildVarArr \in inputs :
        Pure("_convertEnvChildVars", i, [envChildVarArr |-> envChildVarArr],
             _convertEnvChildVars(envChildVarArr))

Children == <<"C", "h", "i", "l", "d", "r", "e", "n">>
EnvKeys ==
    { <<"s", "r", "c">>, <<"s", "r", "c">> \o Children, Children, Children \o <<"X">>,
      <<"c", "h", "i", "l", "d", "r", "e", "n">> }
PlainSamples ==
    {NULL, Arr(<<EnvVar(<<"X">>, <<"1">>), EnvVar(<<"X">>, <<"2">>)>>),
     JsonText(Arr(<<EnvVar(<<"X">>, <<"1">>), EnvVar(<<"Y">>, <<"2">>)>>))}
ChildrenSamples ==
    {NULL,
     Arr(<<EnvChildVar(<<"A">>, Arr(<<EnvVar(<<"X">>, <<"1">>)>>)),
           EnvChildVar(<<"A">>, Arr(<<EnvVar(<<"Y">>, <<"2">>)>>))>>),
     JsonText(Arr(<<EnvChildVar(<<"B">>, NULL)>>))}
\* the mappings with at most MaxKeys keys: grouped lists under the keys ending
\* in "Children", flat lists under the others
EnvVariableMaps ==
    UNION { {m \in [ks -> PlainSamples \cup ChildrenSamples] :
                \A k \in ks : m[k] \in IF EndsWith(k, Children) THEN ChildrenSamples
                                       ELSE PlainSamples}
            : ks \in {x \in SUBSET EnvKeys : Cardinality(x) <= MaxKeys} }

\* the caller invokes convertEnvVariables(envVariables): Object.keys(envVariables)
convertEnvVariables_call(maps) ==
    \E i \in instances, m \in maps :
        /\ Begin("convertEnvVariables", i, [envVariables |-> m], "ce_map")
        /\ envVariables' = m
        /\ keys' = DOMAIN m
        /\ UNCHANGED <<CONFIG, Log, latest, instances, call, ex, exitCode, config, trace,
                       result>>

\* mutant of IsChildrenKey: `key.startsWith('Children')`
IsChildrenKey_startsWith(key) ==
    Len(key) >= Len(Children) /\ SubSeq(key, 1, Len(Children)) = Children

\* key.endsWith('Children')
IsChildrenKey(key) == EndsWith(key, Children)

\* one round of .map((key) => { ... }): envVariables[key] is replaced
convertEnvVariables_map ==
    /\ pc = "ce_map"
    /\ keys # {}
    /\ \E key \in keys :
        LET converted == IF IsChildrenKey(key)
                         THEN _convertEnvChildVars(envVariables[key])
                         ELSE _convertEnvVars(envVariables[key])
        IN  IF converted.kind = "throw"
            THEN result' = converted /\ pc' = "done" /\ UNCHANGED <<envVariables, keys>>
            ELSE /\ envVariables' = Put(envVariables, key, converted.val)
                 /\ keys' = keys \ {key}
                 /\ UNCHANGED <<pc, result>>
    /\ UNCHANGED <<CONFIG, Log, latest, instances, op, self, args, call, ex, exitCode, config,
                   trace>>

\* every key was visited: convertEnvVariables ends
convertEnvVariables_ret ==
    /\ pc = "ce_map"
    /\ keys = {}
    /\ result' = Returned(UNDEFINED)
    /\ pc' = "done"
    /\ UNCHANGED <<CONFIG, Log, latest, instances, op, self, args, call, ex, exitCode, config,
                   envVariables, keys, trace>>

\* ------------------------------------------- the file writer and the rest
\* JSON.stringify(jsObj, null, 4) when beautify, JSON.stringify(jsObj) otherwise
JsonStringify(jsObj, beautify) ==
    [t |-> "string", json |-> jsObj, indent |-> IF Truthy(beautify) THEN 4 ELSE 0]

\* fs.writeFileSync(localPath, jsonString, 'utf8'): done, or the error it throws
WriteFile(localPath, jsonString, written) ==
    /\ trace' = Append(trace, [ev |-> "writeFileSync", msg |-> localPath,
                               text |-> jsonString, written |-> written])
    /\ result' = IF written THEN Returned(UNDEFINED)
                 ELSE Thrown(Err("Error", <<"EACCES: permission denied">>))
    /\ pc' = "done"

JsBooleans == {UNDEFINED, [t |-> "boolean", b |-> FALSE], [t |-> "boolean", b |-> TRUE]}
JsObjects == {Obj(EmptyObject), Obj1(<<"C1">>, Obj1(<<"client_id">>, Str(<<"id">>)))}

\* the caller invokes saveJsonFile(localPath, jsObj, beautify)
saveJsonFile_call ==
    \E i \in instances, localPath \in {<<"out.json">>}, jsObj \in JsObjects,
       beautify \in JsBooleans :
        /\ Begin("saveJsonFile", i,
                 [localPath |-> Str(localPath), jsObj |-> jsObj, beautify |-> beautify],
                 "sj_write")
        /\ UNCHANGED <<CONFIG, Log, latest, instances, call, ex, exitCode, config,
                       envVariables, keys, trace, result>>

\* lines 32-33
saveJsonFile_write ==
    /\ pc = "sj_write"
    /\ \E written \in BOOLEAN :
           WriteFile(args.localPath.s, JsonStringify(args.jsObj, args.beautify), written)
    /\ UNCHANGED <<CONFIG, Log, latest, instances, op, self, args, call, ex, exitCode, config,
                   envVariables, keys>>

\* the caller invokes provideMCDevCredentials(credentials): Log.info('Provide authentication')
provideMCDevCredentials_call ==
    \E i \in instances, credentials \in JsObjects :
        /\ Begin("provideMCDevCredentials", i, [credentials |-> credentials], "pc_save")
        /\ Emit("info", <<"Provide authentication">>)
        /\ UNCHANGED <<CONFIG, Log, latest, instances, call, ex, exitCode, config,
                       envVariables, keys, result>>

\* this.saveJsonFile('.mcdev-auth.json', credentials, true)
provideMCDevCredentials_save ==
    /\ pc = "pc_save"
    /\ \E written \in BOOLEAN :
           WriteFile(<<".mcdev-auth.json">>,
                     JsonStringify(args.credentials, [t |-> "boolean", b |-> TRUE]), written)
    /\ UNCHANGED <<CONFIG, Log, latest, instances, op, self, args, call, ex, exitCode, config,
                   envVariables, keys>>

\* for (const item of properties) response[item.copado__API_Name__c] = item.copado__Value__c
RECURSIVE SourcePropertiesLoop(_, _, _)
SourcePropertiesLoop(arr, i, response) ==
    IF i > Len(arr) THEN Returned(Obj(response))
    ELSE IF ~NotNullish(arr[i]) THEN NoProperties
    ELSE SourcePropertiesLoop(arr, i + 1,
             Put(response, JsToString(Get(arr[i], <<"copado__API_Name__c">>)),
                 Get(arr[i], <<"copado__Value__c">>)))

\* convertSourceProperties(properties): how the call ends
convertSourceProperties(properties) ==
    IF properties.t # "array" THEN NotIterable
    ELSE SourcePropertiesLoop(properties.a, 1, EmptyObject)

SourceProperty(name, value) ==
    Obj(Put(Put(EmptyObject, <<"copado__API_Name__c">>, Str(name)),
            <<"copado__Value__c">>, Str(value)))
SourceProperties == {SourceProperty(n, v) : n \in {<<"mid">>}, v \in Values}

\* the caller invokes convertSourceProperties(properties)
convertSourceProperties_call(lists) ==
    \E i \in instances, l \in lists :
        Pure("convertSourceProperties", i, [properties |-> Arr(l)],
             convertSourceProperties(Arr(l)))

Next ==
    \/ execCommand_call(PreMsgs, Commands, PostMsgs)
    \/ execCommand_pre
    \/ execCommand_join
    \/ execCommand_debug
    \/ execCommand_exec
    \/ execCommand_catch
    \/ execCommand_post
    \/ execCommand_leave
    \/ execCommandReturnStatus_call(PreMsgs, Commands, PostMsgs)
    \/ execCommandReturnStatus_pre
    \/ execCommandReturnStatus_join
    \/ execCommandReturnStatus_debug
    \/ execCommandReturnStatus_exec
    \/ execCommandReturnStatus_catch
    \/ execCommandReturnStatus_post
    \/ push_call(Branches)
    \/ push_ret
    \/ provideMCDevTools_call
    \/ provideMCDevTools_exists
    \/ provideMCDevTools_config
    \/ provideMCDevTools_ret
    \/ getBuName_call(CredNames, Mids)
    \/ getBuName_credName
    \/ getBuName_mid
    \/ getBuName_exists
    \/ getBuName_read
    \/ getBuName_lookup
    \/ convertEnvVars_call(EnvVarInputs)
    \/ convertEnvVars_again
    \/ convertEnvChildVars_call(EnvChildVarInputs)
    \/ convertEnvVariables_call(EnvVariableMaps)
    \/ convertEnvVariables_map
    \/ convertEnvVariables_ret
    \/ saveJsonFile_call
    \/ saveJsonFile_write
    \/ provideMCDevCredentials_call
    \/ provideMCDevCredentials_save
    \/ convertSourceProperties_call(SeqsUpTo(SourceProperties, MaxLen))
    \/ Return

Spec == Init /\ [][Next]_vars

\* any number of Util instances, constructed at any time between two calls;
\* the callers pass one or two arguments per method
NextShared ==
    \/ \E cfg \in Configs : Construct(cfg)
    \/ execCommand_call({Str(<<"pre">>)}, {Arr(<<Str(<<"c1">>), Str(<<"c2">>)>>)}, PostMsgs)
    \/ execCommand_pre
    \/ execCommand_join
    \/ execCommand_debug
    \/ execCommand_exec
    \/ execCommand_catch
    \/ execCommand_post
    \/ execCommand_leave
    \/ execCommandReturnStatus_call({Str(<<"pre">>)}, {Str(<<"c1">>)}, PostMsgs)
    \/ execCommandReturnStatus_pre
    \/ execCommandReturnStatus_join
    \/ execCommandReturnStatus_debug
    \/ execCommandReturnStatus_exec
    \/ execCommandReturnStatus_catch
    \/ execCommandReturnStatus_post
    \/ push_call({<<"main">>})
    \/ push_ret
    \/ provideMCDevTools_call
    \/ provideMCDevTools_exists
    \/ provideMCDevTools_config
    \/ provideMCDevTools_ret
    \/ getBuName_call({Str(<<>>), Str(<<"C1">>)}, {UNDEFINED, Str(<<"1", "0", "0">>)})
    \/ getBuName_credName
    \/ getBuName_mid
    \/ getBuName_exists
    \/ getBuName_read
    \/ getBuName_lookup
    \/ convertEnvVars_call({NULL, Arr(<<EnvVar(<<"X">>, <<"1">>)>>)})
    \/ convertEnvVars_again
    \/ convertEnvChildVars_call(ChildrenSamples)
    \/ convertEnvVariables_call({m \in EnvVariableMaps : Cardinality(DOMAIN m) = 1})
    \/ convertEnvVariables_map
    \/ convertEnvVariables_ret
    \/ saveJsonFile_call
    \/ saveJsonFile_write
    \/ provideMCDevCredentials_call
    \/ provideMCDevCredentials_save
    \/ convertSourceProperties_call({<<>>, <<SourceProperty(<<"mid">>, <<"1">>)>>})
    \/ Return

SpecShared == InitLoaded /\ [][NextShared]_vars

\* ------------------------------------------------------------ the claims
\* the child processes a frame started
ExecEvents(tr) == SelectSeq(tr, LAMBDA e : e.ev = "execSync")
LogEvents(tr, level) == SelectSeq(tr, LAMBDA e : e.ev = level)
IsLog(e) == e.ev \in {"debug", "progress", "info", "warn", "error"}

\* the frame of execCommand / execCommandReturnStatus has run to its end
FrameEnded(fn) ==
    /\ call.fn = fn
    /\ \/ fn = "execCommand" /\ pc = "ec_end"
       \/ fn = "execCommandReturnStatus" /\ pc = "done"

\* the outcome of the one child process of the ended frame
FrameOutcome == ExecEvents(FrameTrace)[1].out

\* the status a child process reports: its exit status, none when it was
\* killed by a signal or could not be started
ReportedStatus(out) == IF out.how = "exit" THEN Num(out.code) ELSE NULL

\* C1: execCommandReturnStatus never raises because of the executed command;
\* it returns 0 exactly when the command completed successfully and otherwise
\* the status the failed process reported, unchanged, which is the sentinel
\* null, distinct from 0, when the process reported no status.
C1_ReturnStatus ==
    /\ op = "execCommandReturnStatus" => result.kind # "throw"
    /\ FrameEnded("execCommandReturnStatus") =>
        /\ result.kind = "return"
        /\ Len(ExecEvents(FrameTrace)) = 1
        /\ (result.val = Num(0)) <=> (FrameOutcome.how = "exit" /\ FrameOutcome.code = 0)
        /\ ~(FrameOutcome.how = "exit" /\ FrameOutcome.code = 0) =>
               result.val = ReportedStatus(FrameOutcome)
        /\ FrameOutcome.how # "exit" => result.val = NULL /\ result.val # Num(0)

C1_Witness ==
    /\ FrameEnded("execCommandReturnStatus")
    /\ FrameOutcome.how = "exit"
    /\ FrameOutcome.code = 2
    /\ result = Returned(Num(2))

\* C2: in execCommand a failing command (non-zero exit, signal, spawn error)
\* is logged exactly once at info level, the post-message is not emitted and
\* the call ends by raising; a succeeding command makes the call return
\* without raising; execCommand never logs at error level.
C2_FailFast ==
    /\ call.fn = "execCommand" => LogEvents(FrameTrace, "error") = <<>>
    /\ FrameEnded("execCommand") =>
        /\ Len(ExecEvents(FrameTrace)) = 1
        /\ IF FrameOutcome.how = "exit" /\ FrameOutcome.code = 0
           THEN result.kind = "return"
           ELSE /\ result.kind = "throw"
                /\ Len(LogEvents(FrameTrace, "info")) = 1
                /\ \A j \in 1..Len(FrameTrace) :
                       IsLog(FrameTrace[j]) /\ FrameTrace[j].ev # "info" =>
                           j < CHOOSE k \in 1..Len(FrameTrace) : FrameTrace[k].ev = "execSync"
                /\ NotNullish(call.postMsg) =>
                       \A j \in 1..Len(FrameTrace) :
                           FrameTrace[j].msg # CHECKMARK \o JsToString(call.postMsg)

C2_Witness ==
    /\ FrameEnded("execCommand")
    /\ FrameOutcome.how = "signal"
    /\ NotNullish(call.postMsg)
    /\ result.kind = "throw"

\* the command line a command resolves to: the string itself, or the elements
\* of the list separated by " && "
RECURSIVE RefChain(_, _)
RefChain(a, n) ==
    IF n = 1 THEN a[1].s ELSE RefChain(a, n - 1) \o <<" && ">> \o a[n].s

RefCommandLine(c) == IF c.t = "array" THEN RefChain(c.a, Len(c.a)) ELSE c.s

\* C9: one call of execCommand or execCommandReturnStatus emits the
\* pre-message (only if given) at progress level, then the resolved command
\* line at debug level, then runs the command, then emits the post-message;
\* the post-message is emitted if and only if it was given and the command
\* succeeded, at debug level in execCommand and at progress level in
\* execCommandReturnStatus.
C9_EventOrder ==
    \A fn \in {"execCommand", "execCommandReturnStatus"} :
        FrameEnded(fn) =>
            LET before == (IF NotNullish(call.preMsg)
                           THEN <<Event("progress", call.preMsg.s)>> ELSE <<>>)
                          \o <<Event("debug", ZAP \o RefCommandLine(call.given))>>
                n == Len(before) + 1
                post == Event(IF fn = "execCommand" THEN "debug" ELSE "progress",
                              CHECKMARK \o call.postMsg.s)
            IN  /\ Len(FrameTrace) >= n
                /\ SubSeq(FrameTrace, 1, n - 1) = before
                /\ FrameTrace[n].ev = "execSync"
                /\ FrameTrace[n].msg = RefCommandLine(call.given)
                /\ IF NotNullish(call.postMsg) /\ FrameTrace[n].out = [how |-> "exit", code |-> 0]
                   THEN SubSeq(FrameTrace, n + 1, Len(FrameTrace)) = <<post>>
                   ELSE \A j \in 1..Len(FrameTrace) :
                            FrameTrace[j].msg # CHECKMARK \o JsToString(call.postMsg)

C9_Witness ==
    /\ FrameEnded("execCommandReturnStatus")
    /\ call.preMsg = Str(<<"pre">>)
    /\ call.given.t = "array"
    /\ Len(call.given.a) = 2
    /\ trace[Len(trace)] = Event("progress", CHECKMARK \o <<"post">>)

\* getBuName has ended
GbDone == op = "getBuName" /\ pc = "done"

\* an argument is missing: not given, or the empty string
Missing(x) == x.t \in {"undefined", "null"} \/ x = Str(<<>>)

ErrNoCredName == Err("Error", <<"System Property \"credentialName\" not set">>)
ErrNoMid == Err("Error", <<"System Property \"mid\" not set">>)
ErrNoFile(path) == Err("Error", <<"Could not find config file ">> \o path)
ErrNoMatch(mid, credName) ==
    Err("Error", <<"MID ">> \o JsToString(mid) \o <<" not found for ">> \o credName)

\* what the call read from the configuration file, once it has
ReadEvents == SelectSeq(trace, LAMBDA e : e.ev = "readFileSync")
FileText == ReadEvents[1].text

\* the file holds a document of the shape {credentials: {...}}
WellFormedFile ==
    /\ ReadEvents # <<>>
    /\ IsJsonText(FileText)
    /\ FileText.json.t = "object"
    /\ <<"credentials">> \in DOMAIN FileText.json.o

\* the call got valid arguments and read a well-formed file
GbResolved == GbDone /\ ~Missing(args.credName) /\ ~Missing(args.mid) /\ WellFormedFile

FileCredentials == FileText.json.o[<<"credentials">>].o
CredentialListed == args.credName.s \in DOMAIN FileCredentials
FileEntry == FileCredentials[args.credName.s].o

\* the credential entry has a businessUnits mapping
DeclaresBusinessUnits ==
    /\ <<"businessUnits">> \in DOMAIN FileEntry
    /\ FileEntry[<<"businessUnits">>].t = "object"
FileBusinessUnits == FileEntry[<<"businessUnits">>].o

\* the tenant id a stored or requested mid stands for
RECURSIVE RefDecimal(_, _)
RefDecimal(s, acc) ==
    IF s = <<>> THEN acc
    ELSE RefDecimal(Tail(s), 10 * acc + (CHOOSE d \in 0..9 : NatToString(d) = <<Head(s)>>))
TenantId(x) == IF x.t = "number" THEN x.n ELSE RefDecimal(x.s, 0)

\* the business-unit names whose stored tenant id is the requested one
Matches == {b \in DOMAIN FileBusinessUnits : TenantId(FileBusinessUnits[b]) = TenantId(args.mid)}

\* C3: with a credential name, a tenant id and a file whose credential entry
\* declares business units, getBuName returns credName/buName when exactly
\* one business-unit name stores the requested tenant id, and raises when
\* none or several do; it never returns one of several matching names.
C3_ExactlyOne ==
    GbResolved /\ CredentialListed /\ DeclaresBusinessUnits =>
        IF \E b \in Matches : Matches = {b}
        THEN \E b \in Matches : result = Returned(Str(args.credName.s \o <<"/">> \o b))
        ELSE result = Thrown(ErrNoMatch(args.mid, args.credName.s))

C3_Witness ==
    /\ GbResolved /\ CredentialListed /\ DeclaresBusinessUnits
    /\ args.mid = Str(<<"1", "0", "0">>)
    /\ DOMAIN FileBusinessUnits = BuNames
    /\ FileBusinessUnits[<<"bu1">>] = Num(100)
    /\ Matches = {<<"bu1">>}
    /\ result = Returned(Str(<<"C1", "/", "bu1">>))

\* C4: getBuName checks credential name, tenant id and existence of the
\* configuration file in this order and raises a distinct error for the
\* first one violated; with the credential name or the tenant id missing it
\* raises before any file-system call.
C4_PreconditionOrder ==
    op = "getBuName" =>
        /\ Missing(args.credName) \/ Missing(args.mid) => trace = <<>>
        /\ pc = "done" =>
            IF Missing(args.credName) THEN result = Thrown(ErrNoCredName)
            ELSE IF Missing(args.mid) THEN result = Thrown(ErrNoMid)
            ELSE /\ trace # <<>>
                 /\ trace[1].ev = "existsSync"
                 /\ IF trace[1].found
                    THEN result.val \notin {ErrNoCredName, ErrNoMid, ErrNoFile(trace[1].msg)}
                    ELSE trace = <<trace[1]>> /\ result = Thrown(ErrNoFile(trace[1].msg))
        /\ \A path \in {c.configFilePath.s : c \in Configs} :
               Cardinality({ErrNoCredName, ErrNoMid, ErrNoFile(path)}) = 3

C4_Witness ==
    /\ GbDone
    /\ args.credName = Str(<<>>)
    /\ args.mid = UNDEFINED
    /\ trace = <<>>
    /\ result = Thrown(ErrNoCredName)

\* the credential entry has no business units: no businessUnits mapping, or an empty one
NoBusinessUnits == ~DeclaresBusinessUnits \/ DOMAIN FileBusinessUnits = {}

\* C5 as stated: with valid arguments and an existing file, getBuName returns
\* undefined and does not raise whenever the credential is absent from the
\* file or its entry has no business units.
C5_Original ==
    GbResolved /\ (~CredentialListed \/ NoBusinessUnits) => result = Returned(UNDEFINED)

\* C5 as amended: getBuName returns undefined without raising when the
\* credential is absent from the file or its entry has no businessUnits
\* mapping (the field is missing or null); an entry whose businessUnits mapping
\* is empty is the zero-match case and raises the "MID not found" error.
C5_NoResolution ==
    GbResolved =>
        /\ ~CredentialListed \/ ~DeclaresBusinessUnits => result = Returned(UNDEFINED)
        /\ CredentialListed /\ DeclaresBusinessUnits /\ DOMAIN FileBusinessUnits = {} =>
               result = Thrown(ErrNoMatch(args.mid, args.credName.s))

C5_Witness ==
    /\ GbResolved
    /\ CredentialListed
    /\ <<"businessUnits">> \in DOMAIN FileEntry
    /\ FileEntry[<<"businessUnits">>] = NULL
    /\ result = Returned(UNDEFINED)

\* the list a payload holds: given as a list, or as the JSON text of one
ListOf(v) == IF IsJsonText(v) THEN v.json.a ELSE v.a

\* the mapping from each name of the list to the value of its last occurrence
RefFlat(v) ==
    IF v.t \in {"null", "undefined"} THEN v
    ELSE LET l == ListOf(v)
             names == {l[i].o[<<"name">>].s : i \in 1..Len(l)}
             last(n) == CHOOSE i \in 1..Len(l) :
                            /\ l[i].o[<<"name">>].s = n
                            /\ \A j \in (i + 1)..Len(l) : l[j].o[<<"name">>].s # n
         IN  Obj([n \in names |-> l[last(n)].o[<<"value">>]])

\* the mapping from each id of the list to the flat mapping of its last occurrence
RefGrouped(v) ==
    IF v.t \in {"null", "undefined"} THEN v
    ELSE LET l == ListOf(v)
             ids == {l[i].o[<<"id">>].s : i \in 1..Len(l)}
             last(n) == CHOOSE i \in 1..Len(l) :
                            /\ l[i].o[<<"id">>].s = n
                            /\ \A j \in (i + 1)..Len(l) : l[j].o[<<"id">>].s # n
         IN  Obj([n \in ids |-> RefFlat(l[last(n)].o[<<"environmentVariables">>])])

\* _convertEnvVars was applied once / to its own result
Applied == op = "_convertEnvVars" /\ pc = "done" /\ args.once = NoResult
AppliedTwice == op = "_convertEnvVars" /\ pc = "done" /\ args.once # NoResult

\* C6 as stated: applying _convertEnvVars to the result of a first
\* application yields the same mapping as applying it once.
C6_Original == AppliedTwice => result = args.once

\* C6 as amended: _convertEnvVars applied to the result of a first application
\* returns that result again only when it is null or undefined (the input was
\* null or absent); for every well-formed sequence, the empty one and the
\* JSON-encoded ones included, the first application returns a mapping and the
\* second application raises a TypeError, a mapping not being iterable.
C6_SecondApplication ==
    AppliedTwice =>
        IF args.envVarArr.t \in {"null", "undefined"}
        THEN result = args.once /\ result = Returned(args.envVarArr)
        ELSE /\ args.once.kind = "return"
             /\ args.once.val.t = "object"
             /\ result.kind = "throw"
             /\ result.val.name = "TypeError"

C6_Witness ==
    /\ AppliedTwice
    /\ args.envVarArr = Arr(<<EnvVar(<<"X">>, <<"1">>), EnvVar(<<"Y">>, <<"2">>)>>)
    /\ args.once.val.t = "object"
    /\ DOMAIN args.once.val.o = Names
    /\ result.kind = "throw"

\* C7: _convertEnvVars returns a null or absent input unchanged and otherwise
\* the mapping whose keys are exactly the names occurring in the sequence,
\* each with the value of the last occurrence of that name.
C7_LastWins == Applied => result = Returned(RefFlat(args.envVarArr))

C7_Witness ==
    /\ Applied
    /\ args.envVarArr = JsonText(Arr(<<EnvVar(<<"X">>, <<"1">>), EnvVar(<<"X">>, <<"2">>)>>))
    /\ result = Returned(Obj(Put(EmptyObject, <<"X">>, Str(<<"2">>))))

\* the key ends with the suffix "Children"
HasSuffix(k) == \E n \in 0..Len(k) : k = SubSeq(k, 1, n) \o Children

\* C8: convertEnvVariables mutates the given mapping in place: no key is
\* added or removed, and when it ends every key with the suffix "Children"
\* holds the grouped transform of its previous value and every other key the
\* flat-list transform of its previous value.
C8_Dispatch ==
    op = "convertEnvVariables" =>
        /\ DOMAIN envVariables = DOMAIN args.envVariables
        /\ pc = "done" =>
            /\ result = Returned(UNDEFINED)
            /\ \A k \in DOMAIN args.envVariables :
                   envVariables[k] = IF HasSuffix(k) THEN RefGrouped(args.envVariables[k])
                                     ELSE RefFlat(args.envVariables[k])

C8_Witness ==
    /\ op = "convertEnvVariables"
    /\ pc = "done"
    /\ DOMAIN envVariables = {<<"s", "r", "c">>, <<"s", "r", "c">> \o Children}
    /\ envVariables[<<"s", "r", "c">>] = Obj(Put(EmptyObject, <<"X">>, Str(<<"2">>)))
    /\ envVariables[<<"s", "r", "c">> \o Children] =
           Obj(Put(EmptyObject, <<"A">>, Obj(Put(EmptyObject, <<"Y">>, Str(<<"2">>)))))

\* the log line provideMCDevTools announces the installation with, by configuration
RefInstallMessage(cfg) ==
    IF ~cfg.installMcdevLocally
    THEN <<"Initializing Accenture SFMC DevTools (packaged version)">>
    ELSE <<"Initializing Accenture SFMC DevTools (">>
             \o (IF Head(cfg.mcdevVersion.s) = "#"
                 THEN <<"accenture/sfmc-devtools">> ELSE <<"mcdev@">>)
             \o cfg.mcdevVersion.s \o <<")">>

IsFsCall(e) == e.ev \in {"existsSync", "readFileSync"}

\* C10: CONFIG and Log are module-level and overwritten by every constructor
\* call: after any sequence of constructions they are those of the most recent
\* constructor call, whatever instance a method is invoked on; getBuName
\* looks for the file of that configuration and provideMCDevTools installs by
\* its settings; no method reassigns or changes the configuration.
C10_SharedConfig ==
    /\ CONFIG = latest
    /\ Log = IF latest = UNDEFINED THEN UNDEFINED ELSE NewLog(latest)
    /\ latest = UNDEFINED => instances = {} /\ pc = "idle"
    /\ op = "getBuName" =>
           \A j \in 1..Len(trace) :
               IsFsCall(trace[j]) => trace[j].msg = latest.configFilePath.s
    /\ op = "provideMCDevTools" /\ call.fn = "execCommand" /\ call.cont = "pm_ret" =>
           call.preMsg = Str(RefInstallMessage(latest))
    /\ op = "provideMCDevTools" /\ LogEvents(trace, "error") # <<>> =>
           latest.installMcdevLocally /\ latest.mcdevVersion = Str(<<>>)

C10_Witness ==
    /\ op = "getBuName"
    /\ trace # <<>>
    /\ self # latest
    /\ self.configFilePath # latest.configFilePath
    /\ trace[1] = [ev |-> "existsSync", msg |-> latest.configFilePath.s, found |-> TRUE]

====
